---- MODULE Spec2Model ----
(***************************************************************************)
(* Model of src/extract_pdf.py: the DataExtractor class.                   *)
(*                                                                         *)
(* Python strings are sequences of one-character strings, so that the      *)
(* regular expressions, str.strip, str.split and float() are computed on   *)
(* characters as the code computes them.  The character "EN_DASH" stands   *)
(* for U+2013.  A Python dict is a function whose DOMAIN is its key set.   *)
(* A float is [kind |-> "float", mant, exp], the decimal mant / 10^exp in  *)
(* lowest terms (binary rounding of float() is not modelled).              *)
(***************************************************************************)
EXTENDS Integers, Sequences, FiniteSets, TLC

VARIABLES
    pdf,               \* the document behind pdf_path: pages, each a sequence of corpus line numbers
    data,              \* the dict objects created by __init__, by reference
    pc,                \* position of the running call: "idle", "pages" (extract loop), "lines" (parse loop)
    self,              \* the instance whose extract() is running
    pageNo,            \* extract(): 1-based index of the next page of pdf.pages
    lines,             \* parse_text_data(): the local `lines`
    lineNo,            \* parse_text_data(): 1-based index of the next line of the loop
    current_employee,  \* parse_text_data(): index into employees of the current dict, 0 for None
    returned,          \* history: per dict, its employees list when parse_text_data last returned
    results,           \* history: <<instance, copy of the dict extract() returned>>, in call order
    value,             \* clean_currency(): the argument
    cleaned            \* clean_currency(): the returned value

vars == <<pdf, data, pc, self, pageNo, lines, lineNo, current_employee,
          returned, results, value, cleaned>>

-----------------------------------------------------------------------------
(* Bounds *)

MaxLines == 2       \* lines in the document
MaxCalls == 2       \* calls of extract() in one run
MaxTokLen == 3      \* characters of a clean_currency argument

-----------------------------------------------------------------------------
(* Characters *)

Digit == {"0", "1", "2", "3", "4", "5", "6", "7", "8", "9"}

Letter ==
    {"A", "B", "C", "D", "E", "F", "G", "H", "I", "J", "K", "L", "M",
     "N", "O", "P", "Q", "R", "S", "T", "U", "V", "W", "X", "Y", "Z",
     "a", "b", "c", "d", "e", "f", "g", "h", "i", "j", "k", "l", "m",
     "n", "o", "p", "q", "r", "s", "t", "u", "v", "w", "x", "y", "z"}

\* \s
Space == {" ", "\t", "\n", "\r", "\f"}

\* [–-]
Dash == {"EN_DASH", "-"}

\* [\d.]
NumChar == Digit \cup {"."}

\* the characters re.sub(r'[^\d.-]', '', ...) keeps
CurrencyChar == Digit \cup {".", "-"}

None == [kind |-> "None"]

Str(chars) == [kind |-> "str", chars |-> chars]

Float(mant, exp) == [kind |-> "float", mant |-> mant, exp |-> exp]

ValueError == [kind |-> "ValueError"]

NoMatch == [matched |-> FALSE]

-----------------------------------------------------------------------------
(* String helpers *)

\* end (exclusive) of the longest run of characters of C that starts at p
RunEnd(s, p, C) ==
    CHOOSE q \in p..(Len(s) + 1) :
        /\ \A k \in p..(q - 1) : s[k] \in C
        /\ q = Len(s) + 1 \/ s[q] \notin C

\* s[p..] starts with word
StartsAt(s, p, word) ==
    /\ p + Len(word) - 1 <= Len(s)
    /\ SubSeq(s, p, p + Len(word) - 1) = word

\* word in s
Contains(s, word) == \E p \in 1..(Len(s) + 1) : StartsAt(s, p, word)

\* str.strip()
Strip(s) ==
    IF \A k \in 1..Len(s) : s[k] \in Space
    THEN <<>>
    ELSE LET a == CHOOSE i \in 1..Len(s) :
                      s[i] \notin Space /\ \A k \in 1..(i - 1) : s[k] \in Space
             b == CHOOSE i \in 1..Len(s) :
                      s[i] \notin Space /\ \A k \in (i + 1)..Len(s) : s[k] \in Space
         IN  SubSeq(s, a, b)

\* str.strip('-')
StripHyphen(s) ==
    IF \A k \in 1..Len(s) : s[k] = "-"
    THEN <<>>
    ELSE LET a == CHOOSE i \in 1..Len(s) :
                      s[i] # "-" /\ \A k \in 1..(i - 1) : s[k] = "-"
             b == CHOOSE i \in 1..Len(s) :
                      s[i] # "-" /\ \A k \in (i + 1)..Len(s) : s[k] = "-"
         IN  SubSeq(s, a, b)

RECURSIVE Split(_)
\* str.split('\n')
Split(s) ==
    IF \A k \in 1..Len(s) : s[k] # "\n"
    THEN <<s>>
    ELSE LET k == CHOOSE i \in 1..Len(s) :
                      s[i] = "\n" /\ \A j \in 1..(i - 1) : s[j] # "\n"
         IN  <<SubSeq(s, 1, k - 1)>> \o Split(SubSeq(s, k + 1, Len(s)))

RECURSIVE Keep(_, _)
\* the characters of s that are in C, in order
Keep(s, C) ==
    IF s = <<>> THEN <<>>
    ELSE IF Head(s) \in C THEN <<Head(s)>> \o Keep(Tail(s), C)
    ELSE Keep(Tail(s), C)

-----------------------------------------------------------------------------
(* float() *)

DigitVal(c) == CHOOSE n \in 0..9 : <<"0", "1", "2", "3", "4", "5", "6", "7", "8", "9">>[n + 1] = c

RECURSIVE DigitsToNat(_)
DigitsToNat(s) ==
    IF s = <<>> THEN 0
    ELSE DigitsToNat(SubSeq(s, 1, Len(s) - 1)) * 10 + DigitVal(s[Len(s)])

RECURSIVE Normalise(_, _)
\* mant / 10^exp in lowest terms
Normalise(mant, exp) ==
    IF exp > 0 /\ mant % 10 = 0 THEN Normalise(mant \div 10, exp - 1)
    ELSE Float(mant, exp)

\* float(s) for s over the characters of CurrencyChar: an optional sign, then
\* digits with at most one point and at least one digit; anything else raises
FloatParse(s) ==
    LET neg  == s # <<>> /\ s[1] = "-"
        body == IF neg THEN Tail(s) ELSE s
        ip   == RunEnd(body, 1, Digit)
        dot  == ip <= Len(body) /\ body[ip] = "."
        fs   == IF dot THEN ip + 1 ELSE ip
        fe   == RunEnd(body, fs, Digit)
        ok   == fe = Len(body) + 1 /\ (ip > 1 \/ fe > fs)
        mag  == DigitsToNat(SubSeq(body, 1, ip - 1) \o SubSeq(body, fs, fe - 1))
    IN  IF ~ok THEN ValueError
        ELSE Normalise(IF neg THEN 0 - mag ELSE mag, fe - fs)

\* as clean_currency without the except clause: the ValueError propagates
CleanCurrencyNoExcept(v) ==
    IF v = None \/ v.chars = <<>> \/ Strip(v.chars) = <<>> THEN None
    ELSE LET c == Keep(v.chars, CurrencyChar)
         IN  IF c = <<>> THEN None ELSE FloatParse(c)

\* clean_currency(value); value is None or Str(chars)
clean_currency(v) ==
    IF v = None \/ v.chars = <<>> \/ Strip(v.chars) = <<>> THEN None
    ELSE LET c == Keep(v.chars, CurrencyChar)
             f == IF c = <<>> THEN None ELSE FloatParse(c)
         IN  IF f = ValueError THEN None ELSE f

-----------------------------------------------------------------------------
(* The three patterns of parse_text_data *)

\* re.match(r'^(\d+)\s*[–-]\s*([A-Za-z]+,\s*[A-Za-z]+)', line).  The character
\* classes that follow one another are disjoint, so the greedy runs decide.
HeaderMatch(line) ==
    LET d  == RunEnd(line, 1, Digit)
        w1 == RunEnd(line, d, Space)
        w2 == RunEnd(line, w1 + 1, Space)
        n1 == RunEnd(line, w2, Letter)
        w3 == RunEnd(line, n1 + 1, Space)
        n2 == RunEnd(line, w3, Letter)
    IN  IF /\ d > 1
           /\ w1 <= Len(line) /\ line[w1] \in Dash
           /\ n1 > w2
           /\ n1 <= Len(line) /\ line[n1] = ","
           /\ n2 > w3
        THEN [matched |-> TRUE,
              group1  |-> SubSeq(line, 1, d - 1),
              group2  |-> SubSeq(line, w2, n2 - 1)]
        ELSE NoMatch

\* \d{2}/\d{2}/\d{2} at p
DateAt(line, p) ==
    /\ p + 7 <= Len(line)
    /\ \A k \in {0, 1, 3, 4, 6, 7} : line[p + k] \in Digit
    /\ \A k \in {2, 5} : line[p + k] = "/"

\* \s+(\d{2}/\d{2}/\d{2})\s+([\d.]+)\s+([\d.]+)\s+([\d.]+) at a
RowAt(line, a) ==
    LET d  == RunEnd(line, a, Space)
        w2 == RunEnd(line, d + 8, Space)
        e3 == RunEnd(line, w2, NumChar)
        w3 == RunEnd(line, e3, Space)
        e4 == RunEnd(line, w3, NumChar)
        w4 == RunEnd(line, e4, Space)
        e5 == RunEnd(line, w4, NumChar)
    IN  IF /\ a <= Len(line) + 1
           /\ d > a
           /\ DateAt(line, d)
           /\ w2 > d + 8
           /\ e3 > w2 /\ w3 > e3
           /\ e4 > w3 /\ w4 > e4
           /\ e5 > w4
        THEN [matched |-> TRUE,
              group2  |-> SubSeq(line, d, d + 7),
              group3  |-> SubSeq(line, w2, e3 - 1),
              group4  |-> SubSeq(line, w3, e4 - 1),
              group5  |-> SubSeq(line, w4, e5 - 1)]
        ELSE NoMatch

HourlyHyphen == <<"H", "o", "u", "r", "l", "y", "-">>

TotalEarnings ==
    <<"T", "o", "t", "a", "l", " ", "E", "a", "r", "n", "i", "n", "g", "s", ":">>

\* the earnings pattern tried at p
EarningAt(line, p) ==
    IF StartsAt(line, p, HourlyHyphen) /\ RowAt(line, p + Len(HourlyHyphen)).matched
    THEN [group1 |-> HourlyHyphen] @@ RowAt(line, p + Len(HourlyHyphen))
    ELSE NoMatch

\* re.search(r'(Hourly-)\s+(\d{2}/\d{2}/\d{2})\s+([\d.]+)\s+([\d.]+)\s+([\d.]+)', line):
\* the leftmost position that matches
EarningSearch(line) ==
    LET at == {p \in 1..Len(line) : EarningAt(line, p).matched}
    IN  IF at = {} THEN NoMatch
        ELSE EarningAt(line, CHOOSE p \in at : \A q \in at : p <= q)

\* \s+([\d.]+)\s+([\d.]+) at a, with the second number optional
TotalAtLoose(line, a) ==
    LET w1 == RunEnd(line, a, Space)
        e1 == RunEnd(line, w1, NumChar)
        w2 == RunEnd(line, e1, Space)
        e2 == RunEnd(line, w2, NumChar)
    IN  IF a <= Len(line) + 1 /\ w1 > a /\ e1 > w1
        THEN [matched |-> TRUE,
              group1  |-> SubSeq(line, w1, e1 - 1),
              group2  |-> IF w2 > e1 THEN SubSeq(line, w2, e2 - 1) ELSE <<>>]
        ELSE NoMatch

\* \s+([\d.]+)\s+([\d.]+) at a
TotalAt(line, a) ==
    LET w1 == RunEnd(line, a, Space)
        e1 == RunEnd(line, w1, NumChar)
        w2 == RunEnd(line, e1, Space)
        e2 == RunEnd(line, w2, NumChar)
    IN  IF a <= Len(line) + 1 /\ w1 > a /\ e1 > w1 /\ w2 > e1 /\ e2 > w2
        THEN [matched |-> TRUE,
              group1  |-> SubSeq(line, w1, e1 - 1),
              group2  |-> SubSeq(line, w2, e2 - 1)]
        ELSE NoMatch

\* re.search(r'Total Earnings:\s+([\d.]+)\s+([\d.]+)', line)
TotalSearch(line) ==
    LET at == {p \in 1..Len(line) :
                  /\ StartsAt(line, p, TotalEarnings)
                  /\ TotalAt(line, p + Len(TotalEarnings)).matched}
    IN  IF at = {} THEN NoMatch
        ELSE TotalAt(line, (CHOOSE p \in at : \A q \in at : p <= q) + Len(TotalEarnings))

-----------------------------------------------------------------------------
(* The body of the loop of parse_text_data *)

\* d[k] = v
DictSet(d, k, v) == [x \in DOMAIN d \cup {k} |-> IF x = k THEN v ELSE d[x]]

\* as NewEmployee, with the two total keys initialised to None
NewEmployeeWithTotals(emp_id, emp_name) ==
    [employee_id   |-> emp_id,
     employee_name |-> emp_name,
     earnings      |-> <<>>,
     total_hours   |-> None,
     total_amount  |-> None]

\* the dict literal of lines 48-52
NewEmployee(emp_id, emp_name) ==
    [employee_id   |-> emp_id,
     employee_name |-> emp_name,
     earnings      |-> <<>>]

\* as OpenRecord, but a header whose id and name are already listed reopens that record
OpenRecordMerging(employees, emp_id, emp_name) ==
    LET same == {k \in 1..Len(employees) :
                    /\ employees[k].employee_id = emp_id
                    /\ employees[k].employee_name = emp_name}
    IN  IF same = {}
        THEN [employees        |-> Append(employees, NewEmployee(emp_id, emp_name)),
              current_employee |-> Len(employees) + 1]
        ELSE [employees        |-> employees,
              current_employee |-> CHOOSE k \in same : TRUE]

\* lines 48-53: the new dict becomes current and is appended to the list
OpenRecord(employees, emp_id, emp_name) ==
    [employees        |-> Append(employees, NewEmployee(emp_id, emp_name)),
     current_employee |-> Len(employees) + 1]

\* as EarningEntry, with rate and hours taken from each other's group
EarningEntrySwapped(m) ==
    [type   |-> Strip(StripHyphen(m.group1)),
     date   |-> m.group2,
     rate   |-> clean_currency(Str(m.group4)),
     hours  |-> clean_currency(Str(m.group3)),
     amount |-> clean_currency(Str(m.group5))]

\* lines 64-76: the entry made from an earnings match
EarningEntry(m) ==
    [type   |-> Strip(StripHyphen(m.group1)),
     date   |-> m.group2,
     rate   |-> clean_currency(Str(m.group3)),
     hours  |-> clean_currency(Str(m.group4)),
     amount |-> clean_currency(Str(m.group5))]

\* as AppendEarning, but to the first record of the list
AppendEarningToFirst(employees, cur, entry) ==
    [employees EXCEPT ![1].earnings = Append(@, entry)]

\* line 70: current_employee['earnings'].append(...)
AppendEarning(employees, cur, entry) ==
    [employees EXCEPT ![cur].earnings = Append(@, entry)]

\* lines 83-84
SetTotals(employees, cur, m) ==
    [employees EXCEPT ![cur] =
        DictSet(DictSet(@, "total_hours", clean_currency(Str(m.group1))),
                "total_amount", clean_currency(Str(m.group2)))]

\* lines 56-85, after the header test: the earnings row, else the total line
MatchRows(employees, cur, line) ==
    LET em == IF cur # 0 THEN EarningSearch(line) ELSE NoMatch
        tm == TotalSearch(line)
    IN  IF em.matched
        THEN [employees |-> AppendEarning(employees, cur, EarningEntry(em)),
              current_employee |-> cur]
        ELSE IF cur # 0 /\ Contains(line, TotalEarnings) /\ tm.matched
        THEN [employees |-> SetTotals(employees, cur, tm), current_employee |-> cur]
        ELSE [employees |-> employees, current_employee |-> cur]

\* as ProcessLine, with the header test the first arm of an if/elif chain
ProcessLineElif(employees, cur, raw) ==
    LET line == Strip(raw)
        hm   == HeaderMatch(line)
    IN  IF hm.matched
        THEN OpenRecord(employees, hm.group1, Strip(hm.group2))
        ELSE MatchRows(employees, cur, line)

\* lines 40-85: one iteration of the loop
ProcessLine(employees, cur, raw) ==
    LET line == Strip(raw)
        hm   == HeaderMatch(line)
        o    == IF hm.matched
                THEN OpenRecord(employees, hm.group1, Strip(hm.group2))
                ELSE [employees |-> employees, current_employee |-> cur]
    IN  MatchRows(o.employees, o.current_employee, line)

-----------------------------------------------------------------------------
(* The documents *)

\* "12 \u2013 Li, Bo"
HeaderLine ==
    <<"1", "2", " ", "EN_DASH", " ", "L", "i", ",", " ", "B", "o">>

\* "Hourly- 01/02/25 10.00 5.00 50.00"
HourlyLine ==
    <<"H", "o", "u", "r", "l", "y", "-", " ", "0", "1", "/", "0", "2", "/", "2", "5",
      " ", "1", "0", ".", "0", "0", " ", "5", ".", "0", "0", " ", "5", "0", ".", "0",
      "0">>

\* "Salary- 01/02/25 10.00 5.00 50.00"
SalaryLine ==
    <<"S", "a", "l", "a", "r", "y", "-", " ", "0", "1", "/", "0", "2", "/", "2", "5",
      " ", "1", "0", ".", "0", "0", " ", "5", ".", "0", "0", " ", "5", "0", ".", "0",
      "0">>

\* "Total Earnings: 5.00 50.00"
TotalLine ==
    <<"T", "o", "t", "a", "l", " ", "E", "a", "r", "n", "i", "n", "g", "s", ":", " ",
      "5", ".", "0", "0", " ", "5", "0", ".", "0", "0">>

\* "  Total Earnings: 5.00"
ShortTotalLine ==
    <<" ", " ", "T", "o", "t", "a", "l", " ", "E", "a", "r", "n", "i", "n", "g", "s",
      ":", " ", "5", ".", "0", "0">>

\* "7-Ng,A Total Earnings: 2 6"
HeaderTotalLine ==
    <<"7", "-", "N", "g", ",", "A", " ", "T", "o", "t", "a", "l", " ", "E", "a", "r",
      "n", "i", "n", "g", "s", ":", " ", "2", " ", "6">>

\* "7-Ng,A Hourly- 03/04/25 1.2.3 2 6 Total Earnings: 2 6"
HeaderHourlyTotalLine ==
    <<"7", "-", "N", "g", ",", "A", " ", "H", "o", "u", "r", "l", "y", "-", " ", "0",
      "3", "/", "0", "4", "/", "2", "5", " ", "1", ".", "2", ".", "3", " ", "2", " ",
      "6", " ", "T", "o", "t", "a", "l", " ", "E", "a", "r", "n", "i", "n", "g", "s",
      ":", " ", "2", " ", "6">>

\* "Hourly- 03/04/25 1 2 2 Total Earnings: 2 6"
HourlyTotalLine ==
    <<"H", "o", "u", "r", "l", "y", "-", " ", "0", "3", "/", "0", "4", "/", "2", "5",
      " ", "1", " ", "2", " ", "2", " ", "T", "o", "t", "a", "l", " ", "E", "a", "r",
      "n", "i", "n", "g", "s", ":", " ", "2", " ", "6">>

\* the text lines a page of the document can show; <<>> is the empty line
Corpus ==
    <<HeaderLine, HourlyLine, SalaryLine, TotalLine, ShortTotalLine,
      HeaderTotalLine, HeaderHourlyTotalLine, HourlyTotalLine, <<>>>>

RECURSIVE Paginate(_, _)
\* the line numbers ls cut into pages after the positions of cuts
Paginate(ls, cuts) ==
    IF ls = <<>> THEN <<>>
    ELSE LET c == CHOOSE k \in cuts \cup {Len(ls)} : \A j \in cuts \cup {Len(ls)} : k <= j
         IN  <<SubSeq(ls, 1, c)>>
                 \o Paginate(SubSeq(ls, c + 1, Len(ls)), {k - c : k \in cuts \ {c}})

\* pdfplumber.open(self.pdf_path).pages: every document of at most MaxLines lines
Pdfs ==
    UNION {{Paginate(ls, cuts) : cuts \in SUBSET (1..(Len(ls) - 1))} :
              ls \in UNION {[1..n -> 1..Len(Corpus)] : n \in 0..MaxLines}}

RECURSIVE JoinLines(_)
JoinLines(ls) ==
    IF Len(ls) = 0 THEN <<>>
    ELSE IF Len(ls) = 1 THEN Corpus[ls[1]]
    ELSE Corpus[ls[1]] \o <<"\n">> \o JoinLines(Tail(ls))

\* page.extract_text(): the lines of the page, in order, one per text line
extract_text(page) == JoinLines(page)

-----------------------------------------------------------------------------
(* The instances *)

\* two extractors of the same document; "a" names the one that is used first
Instances == {"a", "b"}

\* as DataRef, with one dict shared by every instance (a class attribute)
DataRefShared(i) == "a"

\* line 10: each instance refers to the dict its own __init__ created
DataRef(i) == i

\* lines 10-12
NewData == [employees |-> <<>>]

\* self.data['employees']
Employees == data[DataRef(self)].employees

-----------------------------------------------------------------------------
(* Actions *)

Init ==
    /\ pdf \in Pdfs
    /\ data = [r \in Instances |-> NewData]
    /\ pc = "idle"
    /\ self = "a"
    /\ pageNo = 0
    /\ lines = <<>>
    /\ lineNo = 0
    /\ current_employee = 0
    /\ returned = [r \in Instances |-> <<>>]
    /\ results = <<>>
    /\ value = None
    /\ cleaned = None

\* as CallExtract, but extract() starts from an empty employees list
CallExtractResets(i) ==
    /\ pc = "idle"
    /\ Len(results) < MaxCalls
    /\ i = "a" \/ results # <<>>
    /\ pc' = "pages"
    /\ self' = i
    /\ pageNo' = 1
    /\ data' = [data EXCEPT ![DataRef(i)] = NewData]
    /\ UNCHANGED <<pdf, lines, lineNo, current_employee, returned, results, value, cleaned>>

\* lines 23-25: extractor.extract() is called and opens the document
CallExtract(i) ==
    /\ pc = "idle"
    /\ Len(results) < MaxCalls
    /\ i = "a" \/ results # <<>>
    /\ pc' = "pages"
    /\ self' = i
    /\ pageNo' = 1
    /\ UNCHANGED <<pdf, data, lines, lineNo, current_employee, returned, results,
                   value, cleaned>>

\* lines 25-28: a page without text is passed over
SkipPage ==
    /\ pc = "pages"
    /\ pageNo <= Len(pdf)
    /\ extract_text(pdf[pageNo]) = <<>>
    /\ pageNo' = pageNo + 1
    /\ UNCHANGED <<pdf, data, pc, self, lines, lineNo, current_employee, returned,
                   results, value, cleaned>>

\* lines 25-29 and 33-36: parse_text_data(text) is entered
CallParseTextData ==
    /\ pc = "pages"
    /\ pageNo <= Len(pdf)
    /\ extract_text(pdf[pageNo]) # <<>>
    /\ pc' = "lines"
    /\ lines' = Split(extract_text(pdf[pageNo]))
    /\ lineNo' = 1
    /\ current_employee' = 0
    /\ UNCHANGED <<pdf, data, self, pageNo, returned, results, value, cleaned>>

\* lines 39-85: one iteration of the loop over lines
LineStep ==
    /\ pc = "lines"
    /\ lineNo <= Len(lines)
    /\ LET o == ProcessLine(Employees, current_employee, lines[lineNo])
       IN  /\ data' = [data EXCEPT ![DataRef(self)].employees = o.employees]
           /\ current_employee' = o.current_employee
    /\ lineNo' = lineNo + 1
    /\ UNCHANGED <<pdf, pc, self, pageNo, lines, returned, results, value, cleaned>>

\* the loop of parse_text_data ends and the call returns to the loop over pages
ParseReturn ==
    /\ pc = "lines"
    /\ lineNo > Len(lines)
    /\ pc' = "pages"
    /\ pageNo' = pageNo + 1
    /\ lines' = <<>>
    /\ lineNo' = 0
    /\ current_employee' = 0
    /\ returned' = [returned EXCEPT ![DataRef(self)] = Employees]
    /\ UNCHANGED <<pdf, data, self, results, value, cleaned>>

\* line 31: return self.data
ExtractReturn ==
    /\ pc = "pages"
    /\ pageNo > Len(pdf)
    /\ pc' = "idle"
    /\ pageNo' = 0
    /\ results' = Append(results, [self |-> self, data |-> data[DataRef(self)]])
    /\ UNCHANGED <<pdf, data, self, lines, lineNo, current_employee, returned,
                   value, cleaned>>

Next ==
    \/ \E i \in Instances : CallExtract(i)
    \/ SkipPage
    \/ CallParseTextData
    \/ LineStep
    \/ ParseReturn
    \/ ExtractReturn

Spec == Init /\ [][Next]_vars

-----------------------------------------------------------------------------
(* clean_currency alone, on every short argument *)

TokenChar == {"1", "0", ".", "-", "$", ",", " ", "a"}

\* "$1,234.56"
Dollars == <<"$", "1", ",", "2", "3", "4", ".", "5", "6">>

CleanArgs ==
    {None, Str(Dollars), Str(<<"a", "b", "c">>), Str(<<"1", ".", "2", ".", "3">>)}
        \cup {Str(t) : t \in UNION {[1..n -> TokenChar] : n \in 0..MaxTokLen}}

InitClean ==
    /\ pdf = <<>>
    /\ data = [r \in Instances |-> NewData]
    /\ pc = "clean"
    /\ self = "a"
    /\ pageNo = 0
    /\ lines = <<>>
    /\ lineNo = 0
    /\ current_employee = 0
    /\ returned = [r \in Instances |-> <<>>]
    /\ results = <<>>
    /\ value \in CleanArgs
    /\ cleaned = None

\* lines 14-21
CleanStep ==
    /\ pc = "clean"
    /\ pc' = "cleaned"
    /\ cleaned' = clean_currency(value)
    /\ UNCHANGED <<pdf, data, self, pageNo, lines, lineNo, current_employee,
                   returned, results, value>>

NextClean == CleanStep

SpecClean == InitClean /\ [][NextClean]_vars

-----------------------------------------------------------------------------
(* Vocabulary of the properties *)

IsPrefix(a, b) == Len(a) <= Len(b) /\ SubSeq(b, 1, Len(a)) = a

IsSuffix(a, b) == Len(a) <= Len(b) /\ SubSeq(b, Len(b) - Len(a) + 1, Len(b)) = a

\* the loop of parse_text_data is about to process lines[lineNo]
AtLine == pc = "lines" /\ lineNo <= Len(lines)

\* the line the loop is about to process, stripped
Line == Strip(lines[lineNo])

IsHeader(raw) == HeaderMatch(Strip(raw)).matched

HasRow(raw) == EarningSearch(Strip(raw)).matched

\* a complete total pattern on a line that has no earnings row
IsTotal(raw) == ~HasRow(raw) /\ TotalSearch(Strip(raw)).matched

\* the length of the employees list when the running parse_text_data was entered
Base == Len(returned[DataRef(self)])

\* the header lines among the first n lines of the running call
HeaderIdx(n) == {k \in 1..n : IsHeader(lines[k])}

\* the j-th of them
NthHeader(j, n) ==
    CHOOSE k \in HeaderIdx(n) : Cardinality({h \in HeaderIdx(n) : h <= k}) = j

\* the last line, among the first n, that the record of the j-th header owns
LastOwned(j, n) ==
    IF j < Cardinality(HeaderIdx(n)) THEN NthHeader(j + 1, n) - 1 ELSE n

RECURSIVE RowsIn(_, _)
\* the entries of the earnings rows of lines[from..to], in order
RowsIn(from, to) ==
    IF from > to THEN <<>>
    ELSE (IF HasRow(lines[from])
          THEN <<EarningEntry(EarningSearch(Strip(lines[from])))>>
          ELSE <<>>) \o RowsIn(from + 1, to)

IdName(m) == [employee_id |-> m.group1, employee_name |-> Strip(m.group2)]

RECURSIVE HeadersIn(_)
\* id and name of the header lines of a sequence of text lines, in order
HeadersIn(ls) ==
    IF ls = <<>> THEN <<>>
    ELSE (IF IsHeader(Head(ls)) THEN <<IdName(HeaderMatch(Strip(Head(ls))))>> ELSE <<>>)
             \o HeadersIn(Tail(ls))

\* the same for each line of the corpus
CorpusHeaders == [c \in 1..Len(Corpus) |-> HeadersIn(<<Corpus[c]>>)]

RECURSIVE HeadersOfPage(_)
\* the same for the lines a page shows
HeadersOfPage(page) ==
    IF page = <<>> THEN <<>> ELSE CorpusHeaders[Head(page)] \o HeadersOfPage(Tail(page))

RECURSIVE HeadersOfPages(_)
\* the same for the first n pages of the document
HeadersOfPages(n) ==
    IF n = 0 THEN <<>> ELSE HeadersOfPages(n - 1) \o HeadersOfPage(pdf[n])

RECURSIVE Repeat(_, _)
Repeat(seq, n) == IF n = 0 THEN <<>> ELSE seq \o Repeat(seq, n - 1)

\* how many of the first j calls of extract() were on instance i
CallsOn(i, j) == Cardinality({k \in 1..j : results[k].self = i})

\* id and name of every header line fed so far to instance i, in the order fed
FedHeaders(i) ==
    Repeat(HeadersOfPages(Len(pdf)), CallsOn(i, Len(results)))
        \o (IF pc # "idle" /\ self = i
            THEN HeadersOfPages(pageNo - 1)
                     \o (IF pc = "lines" THEN HeadersIn(SubSeq(lines, 1, lineNo - 1)) ELSE <<>>)
            ELSE <<>>)

TotalKeys == {"total_hours", "total_amount"}

\* the total fields a record carries
Totals(r) == [k \in DOMAIN r \cap TotalKeys |-> r[k]]

AllEmployees == UNION {{data[i].employees[k] : k \in 1..Len(data[i].employees)} : i \in Instances}

-----------------------------------------------------------------------------
(* C1 *)

\* C1: when a page with a header line is followed by a page whose first lines are
\* earnings rows with no header before them, those rows are appended, in order,
\* to the record that was open when the first page ended.
C1_Continuity ==
    (/\ pc = "lines"
     /\ pageNo > 1
     /\ HeadersOfPage(pdf[pageNo - 1]) # <<>>
     /\ HeaderIdx(lineNo - 1) = {})
        => /\ Len(Employees) >= 1
           /\ IsSuffix(RowsIn(1, lineNo - 1), Employees[Len(Employees)].earnings)

-----------------------------------------------------------------------------
(* C2 *)

\* C2: during a call, the records listed before it are as they were, every header
\* line processed so far has opened one record, and the earnings of that record
\* are exactly the entries of the earnings rows from its header line up to the
\* line before the next header line; so a row before any header is in no record.
C2_Ownership ==
    pc = "lines" =>
        LET n == lineNo - 1
            H == Cardinality(HeaderIdx(n))
        IN  /\ Len(Employees) = Base + H
            /\ SubSeq(Employees, 1, Base) = returned[DataRef(self)]
            /\ \A j \in 1..H :
                   Employees[Base + j].earnings = RowsIn(NthHeader(j, n), LastOwned(j, n))

\* two header lines have been processed, the second with an earnings row, and
\* the entry is in the second record
C2_Witness ==
    /\ pc = "lines"
    /\ lineNo = 3
    /\ Len(Employees) = 2
    /\ IsHeader(lines[1]) /\ ~HasRow(lines[1])
    /\ IsHeader(lines[2]) /\ HasRow(lines[2])
    /\ Employees[1].earnings = <<>>
    /\ Len(Employees[2].earnings) = 1

-----------------------------------------------------------------------------
(* C4 *)

\* C4: every employee record carries the five fields employee_id, employee_name,
\* earnings, total_hours and total_amount.
C4_FiveFields ==
    \A r \in AllEmployees :
        {"employee_id", "employee_name", "earnings", "total_hours", "total_amount"}
            \subseteq DOMAIN r

\* a complete total line among lines[from..to]
TotalSeen(from, to) == \E k \in from..to : IsTotal(lines[k])

\* C4 as amended: every record carries employee_id, employee_name and earnings,
\* every entry its five fields, and total_hours and total_amount together or not
\* at all: a record of the running call carries them exactly when a complete
\* total line was processed while it was current.
C4_TotalsOnlyWhenSeen ==
    /\ \A r \in AllEmployees :
           /\ {"employee_id", "employee_name", "earnings"} \subseteq DOMAIN r
           /\ DOMAIN r \ {"employee_id", "employee_name", "earnings"} \in {{}, TotalKeys}
           /\ \A k \in 1..Len(r.earnings) :
                  DOMAIN r.earnings[k] = {"type", "date", "rate", "hours", "amount"}
    /\ pc = "lines" =>
           LET n == lineNo - 1
           IN  /\ Len(Employees) = Base + Cardinality(HeaderIdx(n))
               /\ \A j \in 1..Cardinality(HeaderIdx(n)) :
                      (TotalKeys \subseteq DOMAIN Employees[Base + j])
                          <=> TotalSeen(NthHeader(j, n), LastOwned(j, n))

\* extract() returned a record for which no total line was seen
C4_Witness ==
    /\ pc = "idle"
    /\ Len(results) >= 1
    /\ \E k \in 1..Len(results[1].data.employees) :
           /\ DOMAIN results[1].data.employees[k] = {"employee_id", "employee_name", "earnings"}
           /\ results[1].data.employees[k].earnings # <<>>

-----------------------------------------------------------------------------
(* C6 *)

\* the first call of extract() on its instance
FirstCall(j) == CallsOn(results[j].self, j) = 1

\* C6: the first extract() of two separate instances on the same document
\* return results equal in every field.
C6_SameResult ==
    \A j, k \in DOMAIN results :
        FirstCall(j) /\ FirstCall(k) => results[j].data = results[k].data

\* two instances have each parsed a document with a record that has earnings
C6_Witness ==
    /\ Len(results) = 2
    /\ results[1].self # results[2].self
    /\ \E k \in 1..Len(results[2].data.employees) :
           results[2].data.employees[k].earnings # <<>>

-----------------------------------------------------------------------------
(* C7 *)

\* C7: the records of an instance are, in order, one per header line fed to it,
\* with that line's id and name; and of two header lines in a row, the first
\* having neither an earnings row nor a total, the first one's record has no
\* earnings and no totals.
C7_OneRecordPerHeader ==
    /\ \A i \in Instances :
           [k \in 1..Len(data[i].employees) |->
               [employee_id   |-> data[i].employees[k].employee_id,
                employee_name |-> data[i].employees[k].employee_name]] = FedHeaders(i)
    /\ pc = "lines" =>
           \A k \in 1..(lineNo - 2) :
               (/\ IsHeader(lines[k]) /\ IsHeader(lines[k + 1])
                /\ ~HasRow(lines[k]) /\ ~IsTotal(lines[k]))
                   => LET r == Employees[Base + Cardinality(HeaderIdx(k))]
                      IN  r.earnings = <<>> /\ DOMAIN r \cap TotalKeys = {}

\* the same header line twice in a row has given two records
C7_Witness ==
    /\ pc = "lines"
    /\ lineNo = 3
    /\ lines[1] = lines[2]
    /\ IsHeader(lines[1]) /\ ~HasRow(lines[1]) /\ ~IsTotal(lines[1])
    /\ Len(Employees) = 2
    /\ Employees[1].employee_id = Employees[2].employee_id
    /\ Employees[1].earnings = <<>>

-----------------------------------------------------------------------------
(* C10 *)

\* C10: what the list held when parse_text_data last returned, and when extract()
\* returned, is still the beginning of the list; and the n-th extract() on an
\* instance returns its first result n times over.
C10_AppendOnly ==
    /\ \A i \in Instances : IsPrefix(returned[i], data[i].employees)
    /\ \A j \in DOMAIN results :
           /\ IsPrefix(results[j].data.employees, data[DataRef(results[j].self)].employees)
           /\ \E f \in 1..j :
                  /\ results[f].self = results[j].self
                  /\ FirstCall(f)
                  /\ results[j].data.employees =
                         Repeat(results[f].data.employees, CallsOn(results[j].self, j))

\* extract() was called twice on one instance and returned records
C10_Witness ==
    /\ Len(results) = 2
    /\ results[1].self = results[2].self
    /\ results[1].data.employees # <<>>
    /\ Len(results[2].data.employees) = 2 * Len(results[1].data.employees)

-----------------------------------------------------------------------------
(* C3 *)

\* ([A-Za-z]+-)\s+(\d{2}/\d{2}/\d{2})\s+([\d.]+)\s+([\d.]+)\s+([\d.]+) searched in
\* line: an earnings row with any type token
TypedRowSearch(line) ==
    LET at == {pq \in (1..Len(line)) \X (1..Len(line)) :
                  /\ pq[1] < pq[2]
                  /\ RunEnd(line, pq[1], Letter) = pq[2]
                  /\ line[pq[2]] = "-"
                  /\ RowAt(line, pq[2] + 1).matched}
        m  == CHOOSE pq \in at : \A o \in at : pq[1] <= o[1]
    IN  IF at = {} THEN NoMatch
        ELSE [group1 |-> SubSeq(line, m[1], m[2])] @@ RowAt(line, m[2] + 1)

\* the earnings of the record that is current after the step, as they were before it
EarningsBefore ==
    IF current_employee' <= Len(Employees) THEN Employees[current_employee'].earnings
    ELSE <<>>

\* the entry the claim describes for the row m
EntryOfRow(m) ==
    [type   |-> SubSeq(m.group1, 1, Len(m.group1) - 1),
     date   |-> m.group2,
     rate   |-> clean_currency(Str(m.group3)),
     hours  |-> clean_currency(Str(m.group4)),
     amount |-> clean_currency(Str(m.group5))]

\* C3: while a record is current, a line with an earnings row of any type token
\* ending in a hyphen appends one entry to the current record: the token without
\* its hyphen, the date, and the three numbers as rate, hours, amount.
C3_AnyTypeToken ==
    [][(AtLine /\ current_employee' # 0 /\ TypedRowSearch(Line).matched)
          => Employees'[current_employee'].earnings
                 = Append(EarningsBefore, EntryOfRow(TypedRowSearch(Line)))]_vars

\* C3 as amended: the same for the type token "Hourly-" alone; a line without an
\* "Hourly-" row, whatever its type token, appends no entry to any record.
C3_HourlyOnly ==
    [][AtLine =>
          /\ (current_employee' # 0 /\ EarningSearch(Line).matched)
                 => Employees'[current_employee'].earnings
                        = Append(EarningsBefore, EntryOfRow(EarningSearch(Line)))
          /\ ~EarningSearch(Line).matched
                 => /\ \A k \in 1..Len(Employees) :
                           Employees'[k].earnings = Employees[k].earnings
                    /\ \A k \in (Len(Employees) + 1)..Len(Employees') :
                           Employees'[k].earnings = <<>>]_vars

\* the row "Hourly- 01/02/25 10.00 5.00 50.00" has been appended to the current record
C3_Witness ==
    /\ pc = "lines"
    /\ lineNo > 1
    /\ lines[lineNo - 1] = HourlyLine
    /\ current_employee # 0
    /\ Employees[current_employee].earnings =
           <<[type   |-> <<"H", "o", "u", "r", "l", "y">>,
              date   |-> <<"0", "1", "/", "0", "2", "/", "2", "5">>,
              rate   |-> Float(10, 0),
              hours  |-> Float(5, 0),
              amount |-> Float(50, 0)]>>

-----------------------------------------------------------------------------
(* C8 *)

\* the step leaves every record that was listed as it was
RecordsKept == \A k \in 1..Len(Employees) : Employees'[k] = Employees[k]

\* the step leaves every listed record but the one at cur as it was
OthersKept(cur) == \A k \in 1..Len(Employees) : k # cur => Employees'[k] = Employees[k]

\* record k carries other totals after the step than before it
TotalsChanged(k) ==
    Totals(Employees'[k]) # (IF k <= Len(Employees) THEN Totals(Employees[k]) ELSE << >>)

\* 'Total Earnings:' with one number after it, which ends the line
OneNumberTotal(line) ==
    \E p \in 1..Len(line) :
        /\ StartsAt(line, p, TotalEarnings)
        /\ LET a == p + Len(TotalEarnings)
               w == RunEnd(line, a, Space)
           IN  w > a /\ w <= Len(line) /\ RunEnd(line, w, NumChar) = Len(line) + 1

\* the totals the line sets
TotalsOfLine ==
    [total_hours  |-> clean_currency(Str(TotalSearch(Line).group1)),
     total_amount |-> clean_currency(Str(TotalSearch(Line).group2))]

\* C8: while a record is current, a line with 'Total Earnings:' and two numbers
\* sets total_hours and total_amount of the current record, hours first, and of
\* no other; with one number only it leaves the totals and everything else.
C8_TotalLineSetsTotals ==
    [][AtLine =>
          /\ (current_employee # 0 /\ TotalSearch(Line).matched)
                 => /\ Totals(Employees'[current_employee']) = TotalsOfLine
                    /\ OthersKept(current_employee')
          /\ (current_employee # 0 /\ ~IsHeader(Line) /\ OneNumberTotal(Line))
                 => Employees' = Employees]_vars

\* C8 as amended: the same of a line that has no earnings row (a line with an
\* earnings row appends the entry and its total is not looked at); and no step
\* changes the totals of a record but such a line, of the current record.
C8_TotalLineWithoutRowSetsTotals ==
    [][AtLine =>
          /\ (current_employee' # 0 /\ IsTotal(Line))
                 => /\ Totals(Employees'[current_employee']) = TotalsOfLine
                    /\ Employees'[current_employee'].earnings = EarningsBefore
                    /\ OthersKept(current_employee')
          /\ (OneNumberTotal(Line) /\ ~HasRow(Line))
                 => /\ RecordsKept
                    /\ \A k \in (Len(Employees) + 1)..Len(Employees') :
                           Totals(Employees'[k]) = << >>
          /\ \A k \in 1..Len(Employees') :
                 TotalsChanged(k) => IsTotal(Line) /\ k = current_employee']_vars

\* of two records the second, current, has got its totals and the first has none
C8_Witness ==
    /\ pc = "lines"
    /\ lineNo > 1
    /\ IsTotal(lines[lineNo - 1])
    /\ current_employee >= 2
    /\ Totals(Employees[current_employee]) =
           [total_hours |-> Float(2, 0), total_amount |-> Float(6, 0)]
    /\ Totals(Employees[current_employee - 1]) = << >>

-----------------------------------------------------------------------------
(* C9 *)

\* C9: a line that matches the header pattern opens a record, which becomes
\* current, and is then tested for the other patterns: its earnings row is
\* appended to the new record and its total is then not looked at; without an
\* earnings row its complete total sets the totals of the new record.  The
\* records listed before are left as they were.
C9_HeaderLineGoesOn ==
    [][(AtLine /\ IsHeader(Line)) =>
          LET n == Len(Employees)
          IN  /\ Len(Employees') = n + 1
              /\ current_employee' = n + 1
              /\ RecordsKept
              /\ Employees'[n + 1].employee_id = HeaderMatch(Line).group1
              /\ HasRow(Line)
                     => /\ Employees'[n + 1].earnings
                               = <<EarningEntry(EarningSearch(Line))>>
                        /\ Totals(Employees'[n + 1]) = << >>
              /\ IsTotal(Line)
                     => /\ Employees'[n + 1].earnings = <<>>
                        /\ Totals(Employees'[n + 1]) = TotalsOfLine]_vars

\* with a record current, a header line with an earnings row and a total has
\* been processed: the row is in the new record, which has no totals
C9_Witness ==
    /\ pc = "lines"
    /\ lineNo = 3
    /\ IsHeader(lines[1])
    /\ lines[2] = HeaderHourlyTotalLine
    /\ current_employee = Len(Employees)
    /\ Len(Employees[current_employee].earnings) = 1
    /\ Totals(Employees[current_employee]) = << >>
    /\ Employees[current_employee - 1].earnings = <<>>

-----------------------------------------------------------------------------
(* C5 *)

\* C5: clean_currency returns None or a number and never raises: None for an
\* absent, empty or blank argument, for one without digits and for one that
\* float() rejects once stripped; 1234.56 for "$1,234.56".
C5_NeverRaises ==
    pc = "cleaned" =>
        /\ cleaned.kind \in {"None", "float"}
        /\ value \in {None, Str(<<>>), Str(<<" ">>), Str(<<" ", " ">>),
                      Str(<<"a", "b", "c">>), Str(<<"1", ".", "2", ".", "3">>),
                      Str(<<".">>), Str(<<"-">>), Str(<<"1", "-">>), Str(<<"-", "-", "1">>)}
               => cleaned = None
        /\ (value # None /\ FloatParse(Keep(value.chars, CurrencyChar)) = ValueError)
               => cleaned = None
        /\ value = Str(Dollars) => cleaned = Float(123456, 2)
        /\ value = Str(<<"$", "1", "0">>) => cleaned = Float(10, 0)
        /\ value = Str(<<"-", ".", "1">>) => cleaned = Float(0 - 1, 1)

\* an argument that float() rejects after the stripping has been cleaned to None
C5_Witness ==
    /\ pc = "cleaned"
    /\ value = Str(<<"1", ".", "2", ".", "3">>)
    /\ cleaned = None

====
